---- MODULE Spec2Model ----
(***************************************************************************)
(* State-machine model of the ethicalfish-pi relay (src/src/main.rs):      *)
(* main binds the listener and serves; every upgraded connection runs      *)
(* handle_socket, a sequential receive loop that answers "ping" with       *)
(* "pong" and forwards "data:image..." frames to the Roboflow provider     *)
(* through process_image, replying with the JSON list of detections.       *)
(*                                                                         *)
(* Texts received on the socket are sequences of one-character strings so  *)
(* that the comparisons, prefix test and comma split of the code are       *)
(* computed, not assumed.  Each session keeps a trace (log) of what it     *)
(* read, which provider calls it started, what came back and what it       *)
(* sent; every frame read carries a global arrival number g.  The trace    *)
(* keeps the content of an image frame, of its request and of the          *)
(* provider's response while the frame is being handled, and a short tag   *)
(* of them afterwards.                                                     *)
(***************************************************************************)
EXTENDS Integers, Sequences, FiniteSets

\* ------------------------------------------------------------------ bounds
\* Total number of frames the clients deliver over all connections.
MaxFrames == 2

\* Number of environment variables that differ from their startup value at
\* any one time.
MaxEnvChanges == 1

\* The connections the listener can accept in a run.
Sessions == {"A", "B"}

VARIABLES
    phase,      \* main: "init", "serving" or "bind_failed"
    env,        \* the process environment: variable name -> value or Unset
    startEnv,   \* the process environment as it was when main started
    conn,       \* per session, the transport: "none", "up" or "down"
    pc,         \* per session, the await point handle_socket is suspended at
    out,        \* per session, the text about to be sent
    provider,   \* per session, the provider's side of the call in flight
    log,        \* per session, the trace of its reads, calls, responses and sends
    total       \* number of frames delivered so far

vars == <<phase, env, startEnv, conn, pc, out, provider, log, total>>

\* ------------------------------------------------------------ text helpers
PING == <<"p", "i", "n", "g">>
DATA_IMAGE == <<"d", "a", "t", "a", ":", "i", "m", "a", "g", "e">>
COMMA == ","
\* A byte that is not valid UTF-8.
BadByte == "0xFF"

\* str::starts_with
StartsWith(text, prefix) ==
    /\ Len(text) >= Len(prefix)
    /\ SubSeq(text, 1, Len(prefix)) = prefix

\* Index of the first separator in text, 0 when there is none.
RECURSIVE FindFrom(_, _, _)
FindFrom(text, sep, i) ==
    IF i > Len(text) THEN 0
    ELSE IF text[i] = sep THEN i
    ELSE FindFrom(text, sep, i + 1)

\* str::split(sep): every piece between separators; a text without the
\* separator is one piece, and a trailing separator yields a last empty piece.
RECURSIVE Split(_, _)
Split(text, sep) ==
    LET i == FindFrom(text, sep, 1) IN
    IF i = 0 THEN <<text>>
    ELSE <<SubSeq(text, 1, i - 1)>> \o Split(SubSeq(text, i + 1, Len(text)), sep)

\* Iterator::nth(n).unwrap_or(default), n counted from 0.
NthOr(pieces, n, default) ==
    IF n + 1 <= Len(pieces) THEN pieces[n + 1] ELSE default

\* ------------------------------------------------------------------ frames
Text(t) == [kind |-> "Text", data |-> t]
Binary(t) == [kind |-> "Binary", data |-> t]
Close(t) == [kind |-> "Close", data |-> t]

\* The frames a client may deliver.
Frames ==
    { Text(PING),
      Text(<<"P", "i", "n", "g">>),
      Text(PING \o <<" ">>),
      Text(DATA_IMAGE),
      Text(DATA_IMAGE \o <<"/", "p", "n", "g", ";", "b", "a", "s", "e", "6", "4", ",", "A", "A", "A">>),
      Text(DATA_IMAGE \o <<",", "A", ",", "B">>),
      Binary(PING),
      Binary(<<BadByte>>),
      Close(DATA_IMAGE \o <<",", "A">>),
      Close(<<>>) }

Utf8Valid(data) == \A i \in DOMAIN data : data[i] # BadByte

\* Message::to_text: the text of a Text frame, the bytes of a binary or
\* control frame when they are UTF-8, the reason of a Close frame.
ToText(msg) ==
    CASE msg.kind = "Text" -> [ok |-> TRUE, text |-> msg.data]
      [] msg.kind \in {"Binary", "Ping", "Pong"} ->
            IF Utf8Valid(msg.data) THEN [ok |-> TRUE, text |-> msg.data]
            ELSE [ok |-> FALSE, text |-> <<>>]
      [] msg.kind = "Close" -> [ok |-> TRUE, text |-> msg.data]

\* ASCII lower case of one character.
LowerChar(c) == IF c = "P" THEN "p" ELSE c

\* Variant of IsPing that compares without regard to case.
IsPingIgnoreCase(text) == [i \in DOMAIN text |-> LowerChar(text[i])] = PING

\* text == "ping"
IsPing(text) == text = PING

\* text.starts_with("data:image")
IsImage(text) == StartsWith(text, DATA_IMAGE)

\* text.split(",").nth(1).unwrap_or("")
Base64Image(text) == NthOr(Split(text, COMMA), 1, <<>>)

\* Variant of Dispatch without the "ping" branch.
DispatchNoPong(msg) ==
    LET t == ToText(msg) IN
    IF ~t.ok THEN "none"
    ELSE IF IsImage(t.text) THEN "image"
    ELSE "none"

\* What handle_socket does with a message it read: "pong", "image" or "none".
Dispatch(msg) ==
    LET t == ToText(msg) IN
    IF ~t.ok THEN "none"
    ELSE IF IsPing(t.text) THEN "pong"
    ELSE IF IsImage(t.text) THEN "image"
    ELSE "none"

\* ------------------------------------------------------------- environment
Unset == "<unset>"
EnvVars == {"ROBOFLOW_API_KEY", "ROBOFLOW_MODEL_ID", "ROBOFLOW_MODEL_VERSION"}
EnvValue(v) ==
    CASE v = "ROBOFLOW_API_KEY" -> "KEY"
      [] v = "ROBOFLOW_MODEL_ID" -> "fish"
      [] v = "ROBOFLOW_MODEL_VERSION" -> "1"

\* A value a variable can be given other than the one of EnvValue.
OtherValue == "other"

\* std::env::var(..).unwrap() of the three variables succeeds.
EnvComplete(e) == \A v \in EnvVars : e[v] # Unset

\* format!("https://detect.roboflow.com/{}/{}?api_key={}", ...)
Url(e) ==
    "https://detect.roboflow.com/" \o e["ROBOFLOW_MODEL_ID"] \o "/"
        \o e["ROBOFLOW_MODEL_VERSION"] \o "?api_key=" \o e["ROBOFLOW_API_KEY"]

\* format!("image={}", base64_image)
Body(base64_image) == <<"i", "m", "a", "g", "e", "=">> \o base64_image

\* ---------------------------------------------------------------- provider
\* The fields RoboflowPrediction deserializes, none optional.
PredictionFields == {"x", "y", "width", "height", "confidence", "class", "class_id"}

FullPrediction(class, confidence) ==
    [class |-> class, confidence |-> confidence, fields |-> PredictionFields]
BarePrediction(class, confidence) ==
    [class |-> class, confidence |-> confidence, fields |-> {"class", "confidence"}]

\* Response bodies: not JSON, or JSON with a predictions list.
Bodies ==
    { [json |-> FALSE, hasPredictions |-> FALSE, predictions |-> <<>>],
      [json |-> TRUE, hasPredictions |-> TRUE, predictions |-> <<>>],
      [json |-> TRUE, hasPredictions |-> TRUE,
       predictions |-> <<FullPrediction("fish", "0.9"), FullPrediction("cat", "0.5")>>],
      [json |-> TRUE, hasPredictions |-> TRUE,
       predictions |-> <<BarePrediction("fish", "0.9")>>] }

\* What client.post(..).send().await yields: a transport error or a response.
Responses ==
    { [kind |-> "Err", status |-> 0, body |-> [json |-> FALSE, hasPredictions |-> FALSE, predictions |-> <<>>]] }
    \cup { [kind |-> "Http", status |-> 500, body |-> [json |-> FALSE, hasPredictions |-> FALSE, predictions |-> <<>>]] }
    \cup { [kind |-> "Http", status |-> 200, body |-> b] : b \in Bodies }

\* StatusCode::is_success
IsSuccess(status) == status >= 200 /\ status <= 299

\* resp.json::<RoboflowResponse>() succeeds.
ParsesAsRoboflowResponse(body) ==
    /\ body.json
    /\ body.hasPredictions
    /\ \A i \in DOMAIN body.predictions : PredictionFields \subseteq body.predictions[i].fields

\* predictions.into_iter().map(|p| DetectionResult {class, confidence}).collect()
ToDetections(predictions) ==
    [i \in DOMAIN predictions |->
        [class |-> predictions[i].class, confidence |-> predictions[i].confidence]]

\* Variant of ProcessImageResult that reports a failed call as a detection.
ProcessImageResultErrorEntry(resp) ==
    IF resp.kind = "Http" /\ IsSuccess(resp.status)
    THEN IF ParsesAsRoboflowResponse(resp.body)
         THEN ToDetections(resp.body.predictions)
         ELSE <<[class |-> "error", confidence |-> "0.0"]>>
    ELSE <<[class |-> "error", confidence |-> "0.0"]>>

\* The match on the response in process_image.
ProcessImageResult(resp) ==
    IF resp.kind = "Http" /\ IsSuccess(resp.status)
    THEN IF ParsesAsRoboflowResponse(resp.body)
         THEN ToDetections(resp.body.predictions)
         ELSE <<>>
    ELSE <<>>

\* serde_json of one DetectionResult.
DetectionJson(d) ==
    "{\"class\":\"" \o d.class \o "\",\"confidence\":" \o d.confidence \o "}"

RECURSIVE JoinJson(_)
JoinJson(results) ==
    IF results = <<>> THEN ""
    ELSE IF Len(results) = 1 THEN DetectionJson(results[1])
    ELSE DetectionJson(results[1]) \o "," \o JoinJson(Tail(results))

\* serde_json::to_string(&results)
ToJson(results) == "[" \o JoinJson(results) \o "]"

PONG == "pong"

\* ------------------------------------------------------------------- trace
\* What the bytes of a frame spell, whatever the frame's kind.
Spells(data) ==
    IF data = PING THEN "ping"
    ELSE IF Len(data) >= Len(DATA_IMAGE) /\ SubSeq(data, 1, Len(DATA_IMAGE)) = DATA_IMAGE
         THEN "image"
    ELSE "other"

\* The short tag of a response: how far the exchange got.
RespTag(resp) ==
    IF resp.kind = "Err" THEN "transport"
    ELSE IF resp.status < 200 \/ resp.status > 299 THEN "status"
    ELSE IF ~resp.body.json THEN "notjson"
    ELSE "json"

RecvEvent(g, msg) ==
    [op |-> "recv", g |-> g, tag |-> <<msg.kind, Spells(msg.data)>>, full |-> TRUE, detail |-> msg]
CallEvent(g, url, body) ==
    [op |-> "call", g |-> g, tag |-> <<>>, full |-> TRUE, detail |-> [url |-> url, body |-> body]]
RespEvent(g, resp) ==
    [op |-> "resp", g |-> g, tag |-> <<RespTag(resp)>>, full |-> TRUE, detail |-> resp]
SendEvent(g, text) ==
    [op |-> "send", g |-> g, tag |-> <<text>>, full |-> TRUE, detail |-> text]
SendErrEvent(g, text) ==
    [op |-> "senderr", g |-> g, tag |-> <<text>>, full |-> TRUE, detail |-> text]

\* Once an image frame has been handled, its frame, request and response
\* keep their tag only.
Compact(l) ==
    [i \in DOMAIN l |->
        IF \/ l[i].op \in {"call", "resp"}
           \/ l[i].op = "recv" /\ l[i].tag[2] = "image"
        THEN [l[i] EXCEPT !.full = FALSE, !.detail = ""]
        ELSE l[i]]

\* Arrival number carried by the last event of kind op in the trace: the
\* message just read (op = "recv"), the response just obtained (op = "resp").
RECURSIVE LastG(_, _)
LastG(l, op) ==
    IF l = <<>> THEN 0
    ELSE IF l[Len(l)].op = op THEN l[Len(l)].g
    ELSE LastG(SubSeq(l, 1, Len(l) - 1), op)

\* Variant of AwaitInference in which the call is detached and the loop goes
\* on reading while it is in flight.
AwaitInferenceDetached == "recv"

\* process_image(..).await is awaited inside the loop: while the call is in
\* flight the session is suspended there and reads nothing.
AwaitInference == "infer"

\* Variant of Runnable in which the provider call blocks the thread all
\* tasks share: nothing else runs while some session awaits the provider.
RunnableWhenNoCallBlocks(s) ==
    \A t \in Sessions \ {s} : pc[t] # "infer"

\* Every connection runs on its own task of the runtime: a task is resumed
\* as soon as its own await is ready, whatever the other tasks wait for.
Runnable(s) == TRUE

\* Variant of ReplySocket in which all sessions write to one shared socket.
ReplySocketShared(s) == "A"

\* socket.send writes to the session's own socket.
ReplySocket(s) == s

\* Variant of Deliver that writes the message twice.
DeliverTwice(l, e) == Append(Append(l, e), e)

\* The sink delivers messages in the order they were sent.
Deliver(l, e) == Append(l, e)

\* Variant of Terminate in which the loop goes on reading after the error.
TerminateContinue(s, how) == [pc EXCEPT ![s] = "recv"]

\* A session that leaves its loop (return, end of stream) touches only itself.
Terminate(s, how) == [pc EXCEPT ![s] = how]

\* ---------------------------------------------------------------- initial
Init ==
    /\ phase = "init"
    /\ env \in { [v \in EnvVars |-> IF v \in missing THEN Unset ELSE EnvValue(v)] :
                    missing \in {{}} \cup {{v} : v \in EnvVars} }
    /\ startEnv = env
    /\ conn = [s \in Sessions |-> "none"]
    /\ pc = [s \in Sessions |-> "idle"]
    /\ out = [s \in Sessions |-> ""]
    /\ provider = [s \in Sessions |-> "idle"]
    /\ log = [s \in Sessions |-> <<>>]
    /\ total = 0

\* ----------------------------------------------------------------- actions
\* main: build the router, bind the listener (unwrap), serve.
Main ==
    /\ phase = "init"
    /\ phase' \in {"serving", "bind_failed"}
    /\ UNCHANGED <<env, startEnv, conn, pc, out, provider, log, total>>

\* ws_handler: an upgrade spawns handle_socket on its own task.
WsHandler(s) ==
    /\ phase = "serving"
    /\ Runnable(s)
    /\ pc[s] = "idle"
    /\ pc' = [pc EXCEPT ![s] = "recv"]
    /\ conn' = [conn EXCEPT ![s] = "up"]
    /\ UNCHANGED <<phase, env, startEnv, out, provider, log, total>>

\* socket.recv() yields Some(Ok(msg)); the message is dispatched up to the
\* next await.
Recv(s, msg) ==
    /\ Runnable(s)
    /\ pc[s] = "recv"
    /\ conn[s] = "up"
    /\ total < MaxFrames
    /\ total' = total + 1
    /\ conn' = [conn EXCEPT ![s] = IF msg.kind = "Close" THEN "down" ELSE "up"]
    /\ LET g == total + 1
           read == Append(log[s], RecvEvent(g, msg))
           what == Dispatch(msg)
       IN
       CASE what = "pong" ->
                /\ log' = [log EXCEPT ![s] = read]
                /\ out' = [out EXCEPT ![s] = PONG]
                /\ pc' = [pc EXCEPT ![s] = "send_pong"]
                /\ UNCHANGED provider
         [] what = "image" /\ ~EnvComplete(env) ->
                \* std::env::var(..).unwrap() panics: the task dies.
                /\ log' = [log EXCEPT ![s] = Compact(read)]
                /\ pc' = Terminate(s, "panicked")
                /\ UNCHANGED <<out, provider>>
         [] what = "image" /\ EnvComplete(env) ->
                /\ log' = [log EXCEPT ![s] =
                        Append(read, CallEvent(g, Url(env), Body(Base64Image(ToText(msg).text))))]
                /\ pc' = [pc EXCEPT ![s] = AwaitInference]
                /\ \E p \in {"responding", "silent"} :
                        provider' = [provider EXCEPT ![s] = p]
                /\ UNCHANGED out
         [] what = "none" ->
                /\ log' = [log EXCEPT ![s] = read]
                /\ UNCHANGED <<pc, out, provider>>
    /\ UNCHANGED <<phase, env, startEnv>>

\* socket.recv() yields Some(Err(_)): return.
RecvErr(s) ==
    /\ Runnable(s)
    /\ pc[s] = "recv"
    /\ conn[s] = "down"
    /\ pc' = Terminate(s, "closed")
    /\ UNCHANGED <<phase, env, startEnv, conn, out, provider, log, total>>

\* socket.recv() yields None: the while-let loop ends.
RecvNone(s) ==
    /\ Runnable(s)
    /\ pc[s] = "recv"
    /\ conn[s] = "down"
    /\ pc' = Terminate(s, "closed")
    /\ UNCHANGED <<phase, env, startEnv, conn, out, provider, log, total>>

\* socket.send("pong") succeeds: continue.
SendPongOk(s) ==
    /\ Runnable(s)
    /\ pc[s] = "send_pong"
    /\ conn[s] = "up"
    /\ log' = [log EXCEPT ![ReplySocket(s)] =
                    Deliver(log[ReplySocket(s)], SendEvent(LastG(log[s], "recv"), out[s]))]
    /\ pc' = [pc EXCEPT ![s] = "recv"]
    /\ out' = [out EXCEPT ![s] = ""]
    /\ UNCHANGED <<phase, env, startEnv, conn, provider, total>>

\* socket.send("pong") fails: return.
SendPongErr(s) ==
    /\ Runnable(s)
    /\ pc[s] = "send_pong"
    /\ conn[s] # "up"
    /\ log' = [log EXCEPT ![s] = Append(log[s], SendErrEvent(LastG(log[s], "recv"), out[s]))]
    /\ pc' = Terminate(s, "closed")
    /\ out' = [out EXCEPT ![s] = ""]
    /\ UNCHANGED <<phase, env, startEnv, conn, provider, total>>

\* The provider call of process_image completes; the result is serialized.
ProcessImageReturn(s, resp) ==
    /\ Runnable(s)
    /\ pc[s] = AwaitInference
    /\ provider[s] = "responding"
    /\ log' = [log EXCEPT ![s] = Append(log[s], RespEvent(LastG(log[s], "call"), resp))]
    /\ out' = [out EXCEPT ![s] = ToJson(ProcessImageResult(resp))]
    /\ pc' = [pc EXCEPT ![s] = "send_json"]
    /\ provider' = [provider EXCEPT ![s] = "idle"]
    /\ UNCHANGED <<phase, env, startEnv, conn, total>>

\* socket.send(json) succeeds: next iteration.
SendJsonOk(s) ==
    /\ Runnable(s)
    /\ pc[s] = "send_json"
    /\ conn[s] = "up"
    /\ LET done == [log EXCEPT ![s] = Compact(log[s])] IN
       log' = [done EXCEPT ![ReplySocket(s)] =
                    Deliver(done[ReplySocket(s)], SendEvent(LastG(log[s], "resp"), out[s]))]
    /\ pc' = [pc EXCEPT ![s] = "recv"]
    /\ out' = [out EXCEPT ![s] = ""]
    /\ UNCHANGED <<phase, env, startEnv, conn, provider, total>>

\* socket.send(json) fails: return.
SendJsonErr(s) ==
    /\ Runnable(s)
    /\ pc[s] = "send_json"
    /\ conn[s] # "up"
    /\ log' = [log EXCEPT ![s] =
                    Append(Compact(log[s]), SendErrEvent(LastG(log[s], "resp"), out[s]))]
    /\ pc' = Terminate(s, "closed")
    /\ out' = [out EXCEPT ![s] = ""]
    /\ UNCHANGED <<phase, env, startEnv, conn, provider, total>>

\* The peer goes away (clean close of the stream, or a transport error).
PeerDisconnect(s) ==
    /\ pc[s] \in {"recv", "send_pong", AwaitInference, "send_json"}
    /\ conn[s] = "up"
    /\ conn' = [conn EXCEPT ![s] = "down"]
    /\ UNCHANGED <<phase, env, startEnv, pc, out, provider, log, total>>

\* The process environment is global and mutable: a variable is set to
\* another value, or removed, while the server runs.
EnvChange(v, x) ==
    /\ phase = "serving"
    /\ x # env[v]
    /\ env' = [env EXCEPT ![v] = x]
    /\ Cardinality({ w \in EnvVars : env'[w] # startEnv[w] }) <= MaxEnvChanges
    /\ UNCHANGED <<phase, startEnv, conn, pc, out, provider, log, total>>

Next ==
    \/ Main
    \/ \E s \in Sessions : WsHandler(s)
    \/ \E s \in Sessions, msg \in Frames : Recv(s, msg)
    \/ \E s \in Sessions : RecvErr(s)
    \/ \E s \in Sessions : RecvNone(s)
    \/ \E s \in Sessions : SendPongOk(s)
    \/ \E s \in Sessions : SendPongErr(s)
    \/ \E s \in Sessions, resp \in Responses : ProcessImageReturn(s, resp)
    \/ \E s \in Sessions : SendJsonOk(s)
    \/ \E s \in Sessions : SendJsonErr(s)
    \/ \E s \in Sessions : PeerDisconnect(s)

Spec == Init /\ [][Next]_vars

\* The runtime runs every task whose await is ready, and a provider that is
\* responding does respond; nothing obliges a client to send, a peer to
\* disconnect or a silent provider to answer.
Fairness ==
    /\ WF_vars(Main)
    /\ \A s \in Sessions :
        /\ WF_vars(RecvErr(s))
        /\ WF_vars(RecvNone(s))
        /\ WF_vars(SendPongOk(s))
        /\ WF_vars(SendPongErr(s))
        /\ WF_vars(\E resp \in Responses : ProcessImageReturn(s, resp))
        /\ WF_vars(SendJsonOk(s))
        /\ WF_vars(SendJsonErr(s))

FairSpec == Spec /\ Fairness

\* The server in an environment that changes while it runs.
NextEnv ==
    \/ Next
    \/ \E v \in EnvVars : \E x \in {EnvValue(v), Unset, OtherValue} : EnvChange(v, x)

\* The server started with the three variables set.
InitEnv == Init /\ EnvComplete(env)

SpecEnv == InitEnv /\ [][NextEnv]_vars

\* ------------------------------------------------------------------ claims
Events(s) == DOMAIN log[s]

\* Positions of the messages sent on session s in answer to frame g.
SendsFor(s, g) == { j \in Events(s) : log[s][j].op = "send" /\ log[s][j].g = g }

\* The event at position i of session s is the read of a text frame "ping".
IsTextPingRecv(s, i) ==
    /\ log[s][i].op = "recv"
    /\ log[s][i].full
    /\ log[s][i].detail.kind = "Text"
    /\ log[s][i].detail.data = <<"p", "i", "n", "g">>

\* The event at position j of session s is a send, made or failed, of text
\* in answer to frame g.
IsSendAttempt(s, j, g, text) ==
    /\ log[s][j].op \in {"send", "senderr"}
    /\ log[s][j].g = g
    /\ log[s][j].detail = text

\* C1: a text frame "ping" read by a session is answered by exactly one
\* "pong" on that session, and the send of that "pong" is the very next thing
\* the session does: until then it has the "pong" in hand and has sent or
\* read nothing else, and no second message is ever sent for that frame.
C1_PingGetsOnePong ==
    \A s \in Sessions : \A i \in Events(s) :
        IsTextPingRecv(s, i) =>
            /\ i = Len(log[s]) => pc[s] = "send_pong" /\ out[s] = "pong"
            /\ i < Len(log[s]) => IsSendAttempt(s, i + 1, log[s][i].g, "pong")
            /\ SendsFor(s, log[s][i].g) \subseteq {i + 1}
            /\ (i < Len(log[s]) /\ log[s][i + 1].op = "send")
                    => Cardinality(SendsFor(s, log[s][i].g)) = 1

\* A session read "ping", sent "pong" and then read a later frame.
C1_Witness ==
    \E s \in Sessions : \E i \in Events(s) :
        /\ IsTextPingRecv(s, i)
        /\ i + 2 <= Len(log[s])
        /\ log[s][i + 1].op = "send"
        /\ log[s][i + 1].detail = "pong"
        /\ log[s][i + 2].op = "recv"

\* The response event at position i of session s records a failed inference
\* call: transport failure, non-success status or a body that is not JSON.
IsFailedCall(s, i) ==
    /\ log[s][i].op = "resp"
    /\ log[s][i].tag[1] \in {"transport", "status", "notjson"}

\* C2: after a failed inference call the session has "[]" in hand, its next
\* step is the send of "[]" for that frame, and once that send is made the
\* session is reading again: it has not died, and it is closed only when the
\* connection itself is down.
C2_FailedCallRepliesEmptyAndStaysOpen ==
    \A s \in Sessions : \A i \in Events(s) :
        IsFailedCall(s, i) =>
            /\ i = Len(log[s]) => pc[s] = "send_json" /\ out[s] = "[]"
            /\ i < Len(log[s]) => IsSendAttempt(s, i + 1, log[s][i].g, "[]")
            /\ (i + 1 = Len(log[s]) /\ log[s][i + 1].op = "send")
                    => \/ pc[s] = "recv"
                       \/ pc[s] = "closed" /\ conn[s] = "down"
            /\ (i + 1 < Len(log[s]) /\ log[s][i + 1].op = "send")
                    => /\ log[s][i + 2].op = "recv"
                       /\ pc[s] # "panicked"
                       /\ pc[s] = "closed" => conn[s] = "down"

\* A session got "[]" for a failed call, then read "ping" and sent "pong".
C2_Witness ==
    \E s \in Sessions : \E i \in Events(s) :
        /\ IsFailedCall(s, i)
        /\ i + 3 <= Len(log[s])
        /\ log[s][i + 1].op = "send"
        /\ log[s][i + 1].detail = "[]"
        /\ IsTextPingRecv(s, i + 2)
        /\ log[s][i + 3].op = "send"
        /\ log[s][i + 3].detail = "pong"

\* C3: a session that awaits the inference call eventually leaves that
\* await, whatever the provider does (also when it never responds).
C3_InferenceCallEventuallyReturns ==
    \A s \in Sessions : (pc[s] = "infer") ~> (pc[s] # "infer")

\* Position in the trace of session s of the read of frame g.
RecvPos(s, g) == CHOOSE i \in Events(s) : log[s][i].op = "recv" /\ log[s][i].g = g

IsSend(s, j) == log[s][j].op = "send"

\* C4: on one connection, of two replies the one whose frame was read first
\* was sent first, and every reply comes after the read of its frame.
C4_RepliesInReceiveOrder ==
    \A s \in Sessions : \A i, j \in Events(s) :
        (IsSend(s, i) /\ IsSend(s, j)) =>
            /\ \E r \in Events(s) : log[s][r].op = "recv" /\ log[s][r].g = log[s][i].g
            /\ RecvPos(s, log[s][i].g) < i
            /\ RecvPos(s, log[s][i].g) < RecvPos(s, log[s][j].g) => i < j

\* A session replied to an image frame and then to a later "ping".
C4_Witness ==
    \E s \in Sessions : \E i, j \in Events(s) :
        /\ IsSend(s, i) /\ IsSend(s, j)
        /\ i < j
        /\ log[s][i].detail # "pong"
        /\ log[s][j].detail = "pong"

\* Positions of the reads, by session s, of frames whose content is "ping"
\* or starts with "data:image".
ReplyableRecvs(s) ==
    { i \in Events(s) : log[s][i].op = "recv" /\ log[s][i].tag[2] \in {"ping", "image"} }

AllSends(s) == { j \in Events(s) : IsSend(s, j) }

\* C5: a session has sent at most as many messages as it has read "ping"
\* and image frames, and every message sent answers one earlier read of such
\* a frame on that session, which no other message answers.
C5_ServerOnlyReplies ==
    \A s \in Sessions :
        /\ Cardinality(AllSends(s)) <= Cardinality(ReplyableRecvs(s))
        /\ \A j \in AllSends(s) :
            /\ \E i \in ReplyableRecvs(s) : i < j /\ log[s][i].g = log[s][j].g
            /\ SendsFor(s, log[s][j].g) = {j}

\* A session read two frames and sent one message: one frame got no reply.
C5_Witness ==
    \E s \in Sessions :
        /\ Cardinality(AllSends(s)) = 1
        /\ Cardinality({ i \in Events(s) : log[s][i].op = "recv" }) = 2

\* The event at position i of session s is the read of a text frame that is
\* neither exactly "ping" nor starts with "data:image".
IsUnknownTextRecv(s, i) ==
    /\ log[s][i].op = "recv"
    /\ log[s][i].full
    /\ log[s][i].detail.kind = "Text"
    /\ log[s][i].detail.data # <<"p", "i", "n", "g">>
    /\ \/ Len(log[s][i].detail.data) < 10
       \/ SubSeq(log[s][i].detail.data, 1, 10)
            # <<"d", "a", "t", "a", ":", "i", "m", "a", "g", "e">>

\* C6: the read of such a text is followed by no send and no provider call
\* for it; right after it the session is reading again with nothing in hand
\* (closed only when the connection is down), and the next thing in its
\* trace is the read of the next frame.
C6_UnknownTextIgnored ==
    \A s \in Sessions : \A i \in Events(s) :
        IsUnknownTextRecv(s, i) =>
            /\ \A j \in Events(s) : log[s][j].g = log[s][i].g => j = i
            /\ i = Len(log[s]) =>
                    /\ provider[s] = "idle"
                    /\ out[s] = ""
                    /\ \/ pc[s] = "recv"
                       \/ pc[s] = "closed" /\ conn[s] = "down"
            /\ i < Len(log[s]) => log[s][i + 1].op = "recv"

\* A session read the text "Ping", sent nothing for it and read a next frame.
C6_Witness ==
    \E s \in Sessions : \E i \in Events(s) :
        /\ IsUnknownTextRecv(s, i)
        /\ log[s][i].detail.data = <<"P", "i", "n", "g">>
        /\ i < Len(log[s])
        /\ log[s][i + 1].op = "recv"

\* C7: when one of the three configuration values is absent, the process
\* never serves: no connection is accepted and no frame is handled.
C7_MissingConfigRefusesToStart ==
    ~EnvComplete(env) =>
        /\ phase # "serving"
        /\ \A s \in Sessions : pc[s] = "idle" /\ log[s] = <<>>

\* C8: while a session awaits the provider, every other session can take its
\* next step at once: send the "pong" it has in hand, read a "ping" that
\* arrives, and be accepted by the listener if it is not connected yet.
C8_SlowCallDoesNotDelayOthers ==
    \A a, b \in Sessions :
        (a # b /\ pc[a] = "infer") =>
            /\ (pc[b] = "send_pong" /\ conn[b] = "up") => ENABLED SendPongOk(b)
            /\ (pc[b] = "recv" /\ conn[b] = "up" /\ total < MaxFrames)
                    => ENABLED Recv(b, Text(<<"p", "i", "n", "g">>))
            /\ (pc[b] = "idle" /\ phase = "serving") => ENABLED WsHandler(b)

\* Session a still awaits a provider that never responds, and session b has
\* read a "ping" that arrived after a's image frame and has sent its "pong".
C8_Witness ==
    \E a, b \in Sessions :
        /\ a # b
        /\ pc[a] = "infer"
        /\ provider[a] = "silent"
        /\ \E i \in Events(b) :
            /\ IsTextPingRecv(b, i)
            /\ log[b][i].g > LastG(log[a], "call")
            /\ i < Len(log[b])
            /\ log[b][i + 1].op = "send"
            /\ log[b][i + 1].detail = "pong"

\* What belongs to session t.
SessionState(t) == <<pc[t], conn[t], out[t], provider[t], log[t]>>

\* Every message sent on a connection answers a frame read earlier on that
\* same connection.
NoCrossTalk ==
    \A s \in Sessions : \A j \in Events(s) :
        IsSend(s, j) =>
            \E i \in Events(s) : i < j /\ log[s][i].op = "recv" /\ log[s][i].g = log[s][j].g

\* A step in which session s ends (return, end of stream, death of its task)
\* or loses its connection leaves every other session as it was.
EndingTouchesOnlyItself ==
    \A s \in Sessions :
        (\/ pc[s] \notin {"closed", "panicked"} /\ pc'[s] \in {"closed", "panicked"}
         \/ conn[s] = "up" /\ conn'[s] = "down")
            => \A t \in Sessions \ {s} : SessionState(t)' = SessionState(t)

\* C9: sessions are isolated: no message is sent on a connection other than
\* the one its frame was read on, and the end of a session or the loss of
\* its connection changes nothing of any other session.
C9_SessionsIsolated == []NoCrossTalk /\ [][EndingTouchesOnlyItself]_vars

\* One session has ended on a failed send, and the other one has since been
\* sent the reply to a frame that arrived after the first one's last frame.
C9_Witness ==
    \E s, t \in Sessions :
        /\ s # t
        /\ pc[s] = "closed"
        /\ log[s] # <<>>
        /\ log[s][Len(log[s])].op = "senderr"
        /\ \E j \in Events(t) : IsSend(t, j) /\ log[t][j].g > LastG(log[s], "recv")

\* Everything after the first comma of text; empty when there is no comma.
RECURSIVE AfterFirstComma(_)
AfterFirstComma(text) ==
    IF text = <<>> THEN <<>>
    ELSE IF Head(text) = "," THEN Tail(text)
    ELSE AfterFirstComma(Tail(text))

\* C10: the request body of every provider call carries everything after
\* the first comma of the frame's text (nothing when there is no comma), and
\* a frame without a comma still gets its call and its reply.
C10_PayloadIsAfterFirstComma ==
    \A s \in Sessions : \A i \in Events(s) :
        (log[s][i].op = "call" /\ log[s][i].full) =>
            /\ i > 1
            /\ log[s][i - 1].op = "recv"
            /\ log[s][i - 1].full
            /\ log[s][i].detail.body
                = <<"i", "m", "a", "g", "e", "=">> \o AfterFirstComma(log[s][i - 1].detail.data)

\* JSON text of a list of {class, confidence} objects, in the list's order.
ObjectText(p) ==
    "{\"class\":\"" \o p.class \o "\",\"confidence\":" \o p.confidence \o "}"

RECURSIVE ObjectsText(_)
ObjectsText(ps) ==
    IF ps = <<>> THEN ""
    ELSE IF Len(ps) = 1 THEN ObjectText(ps[1])
    ELSE ObjectText(ps[1]) \o "," \o ObjectsText(Tail(ps))

ArrayText(ps) == "[" \o ObjectsText(ps) \o "]"

\* The well-formed JSON arrays of up to two {class, confidence} objects.
WellFormedArrays ==
    { ArrayText(ps) :
        ps \in UNION { [1..n -> [class : {"fish", "cat"}, confidence : {"0.9", "0.5"}]] :
                        n \in 0..2 } }

\* The event at position i of session s is the read of a frame whose content
\* starts with "data:image".
IsImageRecv(s, i) == log[s][i].op = "recv" /\ log[s][i].tag[2] = "image"

\* The response event at position i of session s is a success without
\* predictions.
IsEmptySuccess(s, i) ==
    /\ log[s][i].op = "resp"
    /\ log[s][i].full
    /\ log[s][i].detail.kind = "Http"
    /\ log[s][i].detail.status >= 200 /\ log[s][i].detail.status <= 299
    /\ log[s][i].detail.body.json
    /\ log[s][i].detail.body.hasPredictions
    /\ log[s][i].detail.body.predictions = <<>>

\* What the session holds or has tried to send for the response at position
\* i of its trace is text, and text is a well-formed JSON array.
RepliesWith(s, i, text) ==
    /\ text \in WellFormedArrays
    /\ i = Len(log[s]) => pc[s] = "send_json" /\ out[s] = text
    /\ i < Len(log[s]) => IsSendAttempt(s, i + 1, log[s][i].g, text)

\* C11: an image frame always gets a reply that is a well-formed JSON array:
\* the frame's call is started, the call's outcome is followed by the reply,
\* and after each of the three failure kinds the reply is "[]", the very
\* reply of a success without predictions.
C11_FailuresLookAlikeAndAlwaysReply ==
    \A s \in Sessions : \A i \in Events(s) :
        /\ IsImageRecv(s, i) =>
                /\ i < Len(log[s])
                /\ log[s][i + 1].op = "call"
                /\ log[s][i + 1].g = log[s][i].g
        /\ log[s][i].op = "call" =>
                /\ i = Len(log[s]) => pc[s] = "infer"
                /\ i < Len(log[s]) => log[s][i + 1].op = "resp"
        /\ log[s][i].op = "resp" =>
                \E text \in WellFormedArrays : RepliesWith(s, i, text)
        /\ IsFailedCall(s, i) => RepliesWith(s, i, "[]")
        /\ IsEmptySuccess(s, i) => RepliesWith(s, i, "[]")

\* The response event at position i of session s still carries the response,
\* which is a 2xx response whose body is JSON with a predictions list.
IsSuccessResponse(s, i) ==
    /\ log[s][i].op = "resp"
    /\ log[s][i].full
    /\ log[s][i].detail.kind = "Http"
    /\ log[s][i].detail.status >= 200 /\ log[s][i].detail.status <= 299
    /\ log[s][i].detail.body.json
    /\ log[s][i].detail.body.hasPredictions

\* The {class, confidence} of every prediction of the response at position i,
\* in the provider's order.
ReturnedDetections(s, i) ==
    LET ps == log[s][i].detail.body.predictions IN
    [k \in DOMAIN ps |-> [class |-> ps[k].class, confidence |-> ps[k].confidence]]

\* C12: after a successful provider response the reply is the JSON array of
\* one {class, confidence} object per prediction, in the provider's order.
C12_ReplyListsEveryPredictionInOrder ==
    \A s \in Sessions : \A i \in Events(s) :
        (IsSuccessResponse(s, i) /\ i = Len(log[s])) =>
            /\ pc[s] = "send_json"
            /\ out[s] = ArrayText(ReturnedDetections(s, i))

\* Prediction k of the response at position i carries neither a bounding box
\* nor a class id.
LacksBoxAndClassId(s, i, k) ==
    log[s][i].detail.body.predictions[k].fields
        \cap {"x", "y", "width", "height", "class_id"} = {}

\* C17: a 2xx response whose predictions carry class and confidence but no
\* bounding box and no class id is replied as the list of those detections;
\* a 2xx response whose body is not JSON is replied as "[]".
C17_PredictionsWithoutBoxAreDecoded ==
    \A s \in Sessions : \A i \in Events(s) :
        /\ (/\ IsSuccessResponse(s, i)
            /\ i = Len(log[s])
            /\ \A k \in DOMAIN log[s][i].detail.body.predictions : LacksBoxAndClassId(s, i, k))
                => out[s] = ArrayText(ReturnedDetections(s, i))
        /\ (/\ log[s][i].op = "resp"
            /\ log[s][i].tag[1] = "notjson"
            /\ i = Len(log[s]))
                => out[s] = "[]"

\* Number of events of kind op in the trace of session s.
CountOf(s, op) == Cardinality({ i \in Events(s) : log[s][i].op = op })

\* C13: a session handles one frame at a time: it reads a frame only when
\* the frame read before it has been answered or needed no answer, it has at
\* most one provider call in flight, and that exactly while it awaits the
\* call; every frame taken from a connection is in the trace of its session,
\* and once a reply is sent the session can read whatever frame comes next.
C13_OneFrameAtATime ==
    /\ \A s \in Sessions : \A i \in Events(s) :
        (log[s][i].op = "recv" /\ i > 1) =>
            \/ log[s][i - 1].op = "send"
            \/ log[s][i - 1].op = "recv" /\ log[s][i - 1].tag[2] = "other"
    /\ \A s \in Sessions :
        /\ CountOf(s, "call") - CountOf(s, "resp") \in {0, 1}
        /\ CountOf(s, "call") - CountOf(s, "resp") = 1 <=> pc[s] = "infer"
        /\ pc[s] = "infer" <=> provider[s] # "idle"
    /\ \A s \in Sessions : \A g \in 1..total :
        Cardinality({ t \in Sessions : \E i \in Events(t) :
                        log[t][i].op = "recv" /\ log[t][i].g = g }) = 1
    /\ \A s \in Sessions :
        (/\ log[s] # <<>>
         /\ log[s][Len(log[s])].op = "send"
         /\ conn[s] = "up"
         /\ total < MaxFrames)
            => \A msg \in Frames : ENABLED Recv(s, msg)

\* A session answered an image frame and then read the next frame.
C13_Witness ==
    \E s \in Sessions : \E i \in Events(s) :
        /\ i + 4 <= Len(log[s])
        /\ IsImageRecv(s, i)
        /\ log[s][i + 1].op = "call"
        /\ log[s][i + 2].op = "resp"
        /\ log[s][i + 3].op = "send"
        /\ log[s][i + 4].op = "recv"

\* The session has observed a connection error at the end of its trace: a
\* send that failed.
LastIsSendErr(s) == log[s] # <<>> /\ log[s][Len(log[s])].op = "senderr"

\* C14: a connection error closes the session and Closed is terminal: a
\* failed send is the last event of the trace and leaves the session closed;
\* a session reading on a connection that is down can only become closed;
\* a closed session never changes again (no read, no send, no call).
C14_ConnectionErrorClosesForGood ==
    /\ [](\A s \in Sessions : \A i \in Events(s) :
            log[s][i].op = "senderr" => i = Len(log[s]) /\ pc[s] = "closed")
    /\ [][\A s \in Sessions :
            /\ (pc[s] = "recv" /\ conn[s] # "up" /\ SessionState(s)' # SessionState(s))
                    => /\ pc'[s] = "closed"
                       /\ <<conn[s], out[s], provider[s], log[s]>>'
                            = <<conn[s], out[s], provider[s], log[s]>>
            /\ pc[s] = "closed" => SessionState(s)' = SessionState(s)
            /\ (pc[s] \in {"send_pong", "send_json"} /\ conn[s] # "up"
                    /\ SessionState(s)' # SessionState(s))
                    => pc'[s] = "closed" /\ LastIsSendErr(s)']_vars

\* One session is closed after a failed send, the other after a read on a
\* connection that went down.
C14_Witness ==
    \E s, t \in Sessions :
        /\ s # t
        /\ pc[s] = "closed" /\ LastIsSendErr(s)
        /\ pc[t] = "closed" /\ ~LastIsSendErr(t)

\* C15: a session that awaits an inference call on a connection that is down
\* reaches Closed, whether or not the provider responds.
C15_DisconnectCancelsAwait ==
    \A s \in Sessions :
        (pc[s] = "infer" /\ conn[s] # "up") ~> (pc[s] = "closed")

\* C16: a frame that is not a text frame causes no outbound message and no
\* inference call: the session has nothing in hand after reading it and no
\* call or send of its trace answers it.
C16_NonTextFramesAreUnknown ==
    \A s \in Sessions : \A i \in Events(s) :
        (log[s][i].op = "recv" /\ log[s][i].tag[1] # "Text") =>
            /\ i = Len(log[s]) => pc[s] \in {"recv", "closed"}
            /\ \A j \in Events(s) :
                log[s][j].g = log[s][i].g => log[s][j].op = "recv"

\* C19: the number of provider calls a session has started equals the number
\* of image frames it has dispatched, every call answers an image frame read
\* before it, and no frame has two calls.
C19_OneCallPerImageFrame ==
    \A s \in Sessions :
        /\ CountOf(s, "call") = Cardinality({ i \in Events(s) : IsImageRecv(s, i) })
        /\ \A j \in Events(s) :
            log[s][j].op = "call" =>
                /\ \E i \in Events(s) : i < j /\ IsImageRecv(s, i) /\ log[s][i].g = log[s][j].g
                /\ \A k \in Events(s) :
                    (log[s][k].op = "call" /\ log[s][k].g = log[s][j].g) => k = j

\* C20: after the read of a close frame the trace of the session holds no
\* call and no send, made or failed, and the session is reading or closed.
C20_NothingAfterCloseFrame ==
    \A s \in Sessions : \A i \in Events(s) :
        (log[s][i].op = "recv" /\ log[s][i].tag[1] = "Close") =>
            /\ pc[s] \in {"recv", "closed"}
            /\ \A j \in Events(s) :
                j > i => log[s][j].op \notin {"call", "send", "senderr"}

\* C18: every provider request is built from the configuration the process
\* had at startup: the URL of a call is the one of the startup values, and a
\* session dies on an image frame only if a startup value was missing.
C18_ConfigurationFixedAtStartup ==
    \A s \in Sessions :
        /\ \A i \in Events(s) :
            (log[s][i].op = "call" /\ log[s][i].full)
                => log[s][i].detail.url = Url(startEnv)
        /\ pc[s] = "panicked" => ~EnvComplete(startEnv)

====
